---- MODULE Spec2Model ----
(***************************************************************************)
(* Model of the hydraulic network designer:                                *)
(*   - the topology store with its undo/redo history                       *)
(*     (src/client/src/lib/store.ts),                                      *)
(*   - the level assignment and the drawing of the system diagram          *)
(*     (src/client/src/lib/diagram-generator.ts).                          *)
(*   - the event handlers of the Designer page that call the store        *)
(*     (src/client/src/pages/Designer.tsx).                                *)
(*                                                                         *)
(* Strings that the code builds or parses (element ids, labels) are        *)
(* modelled by what the code does with them: an id is a sequence of         *)
(* characters (0..9 the decimal digits, Letter any other character), a      *)
(* label is a text followed by a decimal number.                            *)
(***************************************************************************)
EXTENDS Integers, Sequences, FiniteSets, TLC

VARIABLES
    \* ---- the store (NetworkState, store.ts:69-81 and 107-123)
    nodes, edges, selectedElementId, selectedElementType,
    computationalParams, outputRequests, isLocked, projectName, history,
    \* ---- module-level id counter (store.ts:104)
    idCounter,
    \* ---- the last value read from the clock, Date.now() (store.ts:337)
    now,
    \* ---- observation of the calls made on the store
    last,      \* the last call made, with its arguments
    pre,       \* the store as it was when that call was made
    run,       \* the current run of tracked mutations / undo calls / redo calls
    budget,    \* number of calls that can still be made (Unlimited: any)
    firstRun,  \* <<the result of the first of two generations>>, or <<>>
    \* ---- one call of generateSystemDiagramSVG (diagram-generator.ts:3-231)
    diagramNodes, diagramEdges, levels, queue, pc,
    svgContent, \* what the call has drawn
    dequeued    \* the ids the call has taken from its queue, in order

storeVars == <<nodes, edges, selectedElementId, selectedElementType,
               computationalParams, outputRequests, isLocked, projectName,
               history, idCounter, now>>
obsVars == <<last, pre, run, budget, firstRun>>
layoutVars == <<diagramNodes, diagramEdges, levels, queue, pc, svgContent,
                dequeued>>
vars == <<storeVars, obsVars, layoutVars>>

----------------------------------------------------------------------------
(* Bounds of the model *)

\* calls made on the store in one behaviour of Spec
MaxOps == 3
\* calls made on the store in one behaviour of SpecIds
MaxIdOps == 4
\* tracked mutations in one behaviour of SpecHist
MaxMutations == 61
\* longest history.past with which a run of mutations starts in SpecHist
MaxPrelude == 2
\* largest value the clock takes
MaxClock == 1
\* nodes and edges of a graph handed to the layout
MaxLayoutNodes == 3
MaxLayoutEdges == 3
\* nodes and edges of a graph handed to the layout in SpecDraw
MaxDrawNodes == 2
MaxDrawEdges == 2
\* nodes after the reservoir of a chain handed to the layout in SpecChain
MaxChain == 3
\* calls made on the store in one behaviour of SpecRender
MaxRenderOps == 2
\* events handled by the Designer in one behaviour of SpecDesigner
MaxEvents == 4
\* calls made on the store in one behaviour of SpecRoundTrip
MaxRoundTripOps == 5
\* calls made on the store in one behaviour of SpecExport
MaxExportOps == 4
\* nodes of a graph without edges handed to the layout in SpecCanvas
MaxColumn == 7
\* missing ids on the path between the two nodes of a graph of SpecCanvas
MaxGap == 6

----------------------------------------------------------------------------
(* Strings *)

\* a character that is not a decimal digit
Letter == 10

RECURSIVE Digits(_)
\* the decimal digits of n, as the template literal `${n}` writes them
Digits(n) == IF n < 10 THEN <<n>> ELSE Append(Digits(n \div 10), n % 10)

\* `${idCounter}`
ToStr(n) == Digits(n)

RECURSIVE LeadingDigits(_)
\* the longest prefix of s made of decimal digits
LeadingDigits(s) ==
    IF s = <<>> \/ Head(s) > 9 THEN <<>>
    ELSE <<Head(s)>> \o LeadingDigits(Tail(s))

RECURSIVE DigitsValue(_)
DigitsValue(d) ==
    IF d = <<>> THEN 0
    ELSE 10 * DigitsValue(SubSeq(d, 1, Len(d) - 1)) + d[Len(d)]

\* parseInt(s) || 0 : NaN (no leading digit) and 0 both give 0
ParseIntOr0(s) == DigitsValue(LeadingDigits(s))

\* null, for selectedElementId
null == <<-1>>

\* a label: text followed by the number n (n = 0: no number)
Label(text, n) == [text |-> text, n |-> n]
EmptyLabel == Label("", 0)

----------------------------------------------------------------------------
(* Sequence helpers. Array.prototype.filter is SelectSeq, and s.map(f) is
   [i \in 1..Len(s) |-> f(s[i])]. *)

\* s.slice(0, n)
SliceTo(s, n) == SubSeq(s, 1, IF Len(s) < n THEN Len(s) ELSE n)

\* s.slice(1)
Slice1(s) == IF s = <<>> THEN <<>> ELSE Tail(s)

Range(s) == {s[i] : i \in 1..Len(s)}

\* { ...a, ...b }
Merge(a, b) ==
    [k \in DOMAIN a \cup DOMAIN b |-> IF k \in DOMAIN b THEN b[k] ELSE a[k]]

Max(a, b) == IF a >= b THEN a ELSE b

RECURSIVE MaxOf(_)
\* Math.max(...s, 0)
MaxOf(s) == IF s = <<>> THEN 0 ELSE Max(Head(s), MaxOf(Tail(s)))

----------------------------------------------------------------------------
(* The store: data *)

\* history.past is cut to this many snapshots (store.ts:359)
HistoryCap == 50

\* real-valued attributes are held in hundredths (0.01 is 1, 500.0 is 50000)
InitialParams == [dtcomp |-> 1, dtout |-> 10, tmax |-> 50000]

InitialProjectName == "Untitled Network"

\* variant: the snapshot also holds the project name
SnapshotWithProjectName ==
    [nodes |-> nodes, edges |-> edges,
     computationalParams |-> computationalParams,
     outputRequests |-> outputRequests, projectName |-> projectName]

\* const currentState = { nodes, edges, computationalParams, outputRequests }
Snapshot == [nodes |-> nodes, edges |-> edges,
             computationalParams |-> computationalParams,
             outputRequests |-> outputRequests]

\* every field of the store, the id counter included
Store == [nodes |-> nodes, edges |-> edges,
          selectedElementId |-> selectedElementId,
          selectedElementType |-> selectedElementType,
          computationalParams |-> computationalParams,
          outputRequests |-> outputRequests,
          isLocked |-> isLocked,
          projectName |-> projectName,
          history |-> history,
          idCounter |-> idCounter]

SnapshotOf(st) == [nodes |-> st.nodes, edges |-> st.edges,
                   computationalParams |-> st.computationalParams,
                   outputRequests |-> st.outputRequests]

NodeIds(ns) == {ns[i].id : i \in 1..Len(ns)}
EdgeIds(es) == {es[i].id : i \in 1..Len(es)}

\* the switch of addNode: the default attributes of a new node
InitialData(type, id) ==
    LET nodeNumber == ParseIntOr0(id) IN
    CASE type = "reservoir" ->
           [label |-> Label("HW", 0), type |-> type, nodeNumber |-> nodeNumber,
            elevation |-> 10000]
      [] type \in {"node", "junction"} ->
           [label |-> Label("Node ", nodeNumber), type |-> type,
            nodeNumber |-> nodeNumber, elevation |-> 5000]
      [] type = "surgeTank" ->
           [label |-> Label("ST", 0), type |-> type, nodeNumber |-> nodeNumber,
            topElevation |-> 12000, bottomElevation |-> 8000, diameter |-> 500,
            celerity |-> 100000, friction |-> 1]
      [] type = "flowBoundary" ->
           [label |-> Label("FB", nodeNumber), type |-> type,
            nodeNumber |-> nodeNumber, scheduleNumber |-> 1]
      [] OTHER -> [label |-> EmptyLabel, type |-> type]

\* the edge onConnect builds
NewEdge(id, source, target, label) ==
    [id |-> id, source |-> source, target |-> target, type |-> "connection",
     style |-> "#64748b", markerEnd |-> "#64748b",
     data |-> [label |-> label, type |-> "conduit", length |-> 100000,
               diameter |-> 50, celerity |-> 100000, friction |-> 2,
               numSegments |-> 1]]

\* addEdge of the flow library: an edge whose connection (source, target,
\* handles) is already present is not added
AddEdge(edge, es) ==
    IF \E i \in 1..Len(es) :
          es[i].source = edge.source /\ es[i].target = edge.target
    THEN es
    ELSE Append(es, edge)

\* variant: every edge is counted, whatever its type
CountOfAnyType(es, t) == Len(es)

\* edges.filter(e => e.data?.type === t).length
CountOfType(es, t) == Len(SelectSeq(es, LAMBDA e : e.data.type = t))

----------------------------------------------------------------------------
(* The store: history *)

\* variant: the cut is one snapshot short, slice(0, 49)
SavedPastShort(snap, past) == SliceTo(<<snap>> \o past, HistoryCap - 1)

\* variant: no cut
SavedPastNoCap(snap, past) == <<snap>> \o past

\* past: [currentState, ...history.past].slice(0, 50)
SavedPast(snap, past) == SliceTo(<<snap>> \o past, HistoryCap)

\* variant: the future stack is kept
SaveToHistoryKeepFuture(snap, h) ==
    [past |-> SavedPast(snap, h.past), future |-> h.future]

\* saveToHistory
SaveToHistory(snap, h) == [past |-> SavedPast(snap, h.past), future |-> <<>>]

----------------------------------------------------------------------------
(* Observation of the calls *)

TrackedOps == {"addNode", "onConnect", "updateNodeData", "updateEdgeData",
               "deleteElement", "clearNetwork", "updateComputationalParams",
               "addOutputRequest", "removeOutputRequest"}

InitialSnapshot == [nodes |-> <<>>, edges |-> <<>>,
                    computationalParams |-> InitialParams,
                    outputRequests |-> <<>>]

\* the budget of a behaviour whose calls are not counted
Unlimited == 0 - 1

\* no run of tracked mutations is being followed
NoRun == [phase |-> "none", log |-> <<>>, final |-> InitialSnapshot,
          undos |-> 0, redos |-> 0, emptyStart |-> FALSE]

\* a tracked mutation is called: log holds the snapshots taken before each
\* mutation of the run, the most recent first
RunAfterMutation ==
    IF run.phase = "mutate"
    THEN [run EXCEPT !.log = <<Snapshot>> \o @]
    ELSE [phase |-> "mutate", log |-> <<Snapshot>>, final |-> InitialSnapshot,
          undos |-> 0, redos |-> 0,
          emptyStart |-> (history.past = <<>> /\ history.future = <<>>)]

\* undo is called: it counts when it follows the mutations or another undo
RunAfterUndo ==
    CASE run.phase = "mutate" ->
           [run EXCEPT !.phase = "undo", !.final = Snapshot, !.undos = 1]
      [] run.phase = "undo" -> [run EXCEPT !.undos = @ + 1]
      [] OTHER -> NoRun

\* redo is called: it counts when it follows as many undos as mutations
RunAfterRedo ==
    CASE run.phase = "undo" /\ run.undos = Len(run.log) ->
           [run EXCEPT !.phase = "redo", !.redos = 1]
      [] run.phase = "redo" -> [run EXCEPT !.redos = @ + 1]
      [] OTHER -> NoRun

Observe(call, newRun) ==
    /\ budget # 0
    /\ budget' = IF budget = Unlimited THEN Unlimited ELSE budget - 1
    /\ last' = call
    /\ pre' = Store
    /\ run' = newRun
    /\ UNCHANGED <<firstRun, layoutVars>>

----------------------------------------------------------------------------
(* The store: operations *)

\* const getId = () => `${idCounter++}`
GetId == ToStr(idCounter)

\* onConnect (store.ts:137-168)
OnConnect(source, target) ==
    LET id == GetId
        conduitCount == CountOfType(edges, "conduit")
        connectionLabel == Label("C", conduitCount + 1)
    IN /\ Observe([op |-> "onConnect", source |-> source, target |-> target],
                  RunAfterMutation)
       /\ history' = SaveToHistory(Snapshot, history)
       /\ idCounter' = idCounter + 1
       /\ edges' = AddEdge(NewEdge(id, source, target, connectionLabel), edges)
       /\ UNCHANGED <<nodes, selectedElementId, selectedElementType,
                      computationalParams, outputRequests, projectName, isLocked, now>>

\* addNode (store.ts:170-205)
AddNode(type, position) ==
    LET id == GetId
        newNode == [id |-> id, type |-> type, position |-> position,
                    data |-> InitialData(type, id)]
    IN /\ Observe([op |-> "addNode", type |-> type], RunAfterMutation)
       /\ history' = SaveToHistory(Snapshot, history)
       /\ idCounter' = idCounter + 1
       /\ nodes' = Append(nodes, newNode)
       /\ UNCHANGED <<edges, selectedElementId, selectedElementType,
                      computationalParams, outputRequests, projectName, isLocked, now>>

\* updateNodeData (store.ts:207-214)
UpdateNodeData(id, data) ==
    /\ Observe([op |-> "updateNodeData", id |-> id, data |-> data],
               RunAfterMutation)
    /\ history' = SaveToHistory(Snapshot, history)
    /\ nodes' = [i \in 1..Len(nodes) |->
                    IF nodes[i].id = id
                    THEN [nodes[i] EXCEPT !.data = Merge(nodes[i].data, data)]
                    ELSE nodes[i]]
    /\ UNCHANGED <<edges, selectedElementId, selectedElementType,
                   computationalParams, outputRequests, projectName, isLocked,
                   idCounter, now>>

\* data.type, when the partial carries a (non-empty) type
HasType(data) == "type" \in DOMAIN data /\ data.type # ""

\* variant: the prefix is "C" whatever the new type
RegeneratedLabelAlwaysC(id, data, es) ==
    LET sameTypeEdges ==
            SelectSeq(es, LAMBDA e : e.data.type = data.type /\ e.id # id)
    IN Label("C", Len(sameTypeEdges) + 1)

\* the label of an edge whose type changes (store.ts:225-230)
RegeneratedLabel(id, data, es) ==
    LET sameTypeEdges ==
            SelectSeq(es, LAMBDA e : e.data.type = data.type /\ e.id # id)
    IN Label(IF data.type = "conduit" THEN "C" ELSE "D",
             Len(sameTypeEdges) + 1)

\* variant: the partial is merged into every edge, whatever its id
UpdatedEdgeAnyId(edge, id, data, es) ==
    [edge EXCEPT !.data = Merge(edge.data, data)]

\* the callback of edges.map in updateEdgeData (store.ts:219-252)
UpdatedEdge(edge, id, data, es) ==
    IF edge.id # id THEN edge
    ELSE
      LET oldType == edge.data.type
          newType == IF HasType(data) THEN data.type ELSE oldType
          given == IF "label" \in DOMAIN data /\ data.label # EmptyLabel
                   THEN data.label
                   ELSE edge.data.label
          label == IF HasType(data) /\ data.type # oldType
                   THEN RegeneratedLabel(id, data, es)
                   ELSE given
          newData == Merge(Merge(edge.data, data), [label |-> label])
      IN CASE newType = "conduit" ->
                [edge EXCEPT !.data = newData, !.style = "#3b82f6",
                             !.markerEnd = "#3b82f6"]
           [] newType = "dummy" ->
                [edge EXCEPT !.data = newData, !.style = "#94a3b8 5,5",
                             !.markerEnd = "#94a3b8"]
           [] OTHER -> [edge EXCEPT !.data = newData]

\* updateEdgeData (store.ts:216-254)
UpdateEdgeData(id, data) ==
    /\ Observe([op |-> "updateEdgeData", id |-> id, data |-> data],
               RunAfterMutation)
    /\ history' = SaveToHistory(Snapshot, history)
    /\ edges' = [i \in 1..Len(edges) |-> UpdatedEdge(edges[i], id, data, edges)]
    /\ UNCHANGED <<nodes, selectedElementId, selectedElementType,
                   computationalParams, outputRequests, projectName, isLocked,
                   idCounter, now>>

\* nodes kept by deleteElement(id, 'node')
RemainingNodes(ns, id) == SelectSeq(ns, LAMBDA n : n.id # id)

\* variant: only the edges leaving the node are removed
RemainingEdgesSourceOnly(es, id) == SelectSeq(es, LAMBDA e : e.source # id)

\* edges kept by deleteElement(id, 'node')
RemainingEdges(es, id) == SelectSeq(es, LAMBDA e : e.source # id /\ e.target # id)

\* variant: the selection is left as it is
DeleteElementKeepSelection(id, type) ==
    /\ Observe([op |-> "deleteElement", id |-> id, type |-> type],
               RunAfterMutation)
    /\ history' = SaveToHistory(Snapshot, history)
    /\ IF type = "node"
       THEN /\ nodes' = RemainingNodes(nodes, id)
            /\ edges' = RemainingEdges(edges, id)
       ELSE /\ nodes' = nodes
            /\ edges' = SelectSeq(edges, LAMBDA e : e.id # id)
    /\ UNCHANGED <<selectedElementId, selectedElementType,
                   computationalParams, outputRequests, projectName, isLocked,
                   idCounter, now>>

\* deleteElement (store.ts:256-276)
DeleteElement(id, type) ==
    /\ Observe([op |-> "deleteElement", id |-> id, type |-> type],
               RunAfterMutation)
    /\ history' = SaveToHistory(Snapshot, history)
    /\ IF type = "node"
       THEN /\ nodes' = RemainingNodes(nodes, id)
            /\ edges' = RemainingEdges(edges, id)
       ELSE /\ nodes' = nodes
            /\ edges' = SelectSeq(edges, LAMBDA e : e.id # id)
    /\ selectedElementId' =
          IF selectedElementId = id THEN null ELSE selectedElementId
    /\ selectedElementType' =
          IF selectedElementId = id THEN "null" ELSE selectedElementType
    /\ UNCHANGED <<computationalParams, outputRequests, projectName, isLocked,
                   idCounter, now>>

\* selectElement (store.ts:278-280)
SelectElement(id, type) ==
    /\ Observe([op |-> "selectElement", id |-> id, type |-> type], NoRun)
    /\ selectedElementId' = id
    /\ selectedElementType' = type
    /\ UNCHANGED <<nodes, edges, computationalParams, outputRequests,
                   projectName, isLocked, history, idCounter, now>>

\* toggleLock (store.ts:346-348)
ToggleLock ==
    /\ Observe([op |-> "toggleLock"], NoRun)
    /\ isLocked' = ~isLocked
    /\ UNCHANGED <<nodes, edges, selectedElementId, selectedElementType,
                   computationalParams, outputRequests, projectName, history,
                   idCounter, now>>

\* variant: the renaming takes a snapshot first, as the tracked mutations do
SetProjectNameSavingHistory(name) ==
    /\ Observe([op |-> "setProjectName", name |-> name], NoRun)
    /\ history' = SaveToHistory(Snapshot, history)
    /\ projectName' = name
    /\ UNCHANGED <<nodes, edges, selectedElementId, selectedElementType,
                   computationalParams, outputRequests, isLocked,
                   idCounter, now>>

\* setProjectName (store.ts:350-352)
SetProjectName(name) ==
    /\ Observe([op |-> "setProjectName", name |-> name], NoRun)
    /\ projectName' = name
    /\ UNCHANGED <<nodes, edges, selectedElementId, selectedElementType,
                   computationalParams, outputRequests, isLocked, history,
                   idCounter, now>>

\* variant: the top-level fields override those of the nested bag
ProcessedEdgeTopLevelWins(edge) ==
    IF "variableData" \in DOMAIN edge.data
    THEN LET restData == [k \in DOMAIN edge.data \ {"variableData"} |->
                            edge.data[k]]
         IN [edge EXCEPT !.data = Merge(Merge(edge.data.variableData, restData),
                                        [variable |-> TRUE])]
    ELSE edge

\* the callback of edges.map in loadNetwork (store.ts:291-304): a nested
\* variableData bag is flattened into the edge's data
ProcessedEdge(edge) ==
    IF "variableData" \in DOMAIN edge.data
    THEN LET restData == [k \in DOMAIN edge.data \ {"variableData"} |->
                            edge.data[k]]
         IN [edge EXCEPT !.data = Merge(Merge(restData, edge.data.variableData),
                                        [variable |-> TRUE])]
    ELSE edge

\* variant: the ids are taken to be 1, 2, ... without gaps
MaxIdByCount(ns, es) == Len(ns) + Len(es)

\* Math.max(...nodes.map(parseInt(id) || 0), ...edges.map(...), 0)
MaxId(ns, es) ==
    MaxOf([i \in 1..Len(ns) |-> ParseIntOr0(ns[i].id)]
          \o [i \in 1..Len(es) |-> ParseIntOr0(es[i].id)])

\* variant: loadNetwork takes a snapshot first, as the tracked mutations do
LoadNetworkSavingHistory(ns, es, params, requests, name) ==
    /\ Observe([op |-> "loadNetwork", nodes |-> ns, edges |-> es], NoRun)
    /\ history' = SaveToHistory(Snapshot, history)
    /\ idCounter' = MaxId(ns, es) + 1
    /\ nodes' = ns
    /\ edges' = [i \in 1..Len(es) |-> ProcessedEdge(es[i])]
    /\ computationalParams' =
          IF params # <<>> THEN params[1] ELSE computationalParams
    /\ outputRequests' = IF requests # <<>> THEN requests[1] ELSE <<>>
    /\ projectName' =
          IF name # <<>> /\ name[1] # "" THEN name[1] ELSE projectName
    /\ selectedElementId' = null
    /\ selectedElementType' = "null"
    /\ UNCHANGED <<isLocked, now>>

\* loadNetwork (store.ts:282-315); an optional argument is <<>> when it is
\* not given and <<value>> when it is
LoadNetwork(ns, es, params, requests, name) ==
    /\ Observe([op |-> "loadNetwork", nodes |-> ns, edges |-> es], NoRun)
    /\ idCounter' = MaxId(ns, es) + 1
    /\ nodes' = ns
    /\ edges' = [i \in 1..Len(es) |-> ProcessedEdge(es[i])]
    /\ computationalParams' =
          IF params # <<>> THEN params[1] ELSE computationalParams
    /\ outputRequests' = IF requests # <<>> THEN requests[1] ELSE <<>>
    /\ projectName' =
          IF name # <<>> /\ name[1] # "" THEN name[1] ELSE projectName
    /\ selectedElementId' = null
    /\ selectedElementType' = "null"
    /\ UNCHANGED <<isLocked, history, now>>

\* variant: the id counter is not reset
ClearNetworkKeepCounter ==
    /\ Observe([op |-> "clearNetwork"], RunAfterMutation)
    /\ history' = SaveToHistory(Snapshot, history)
    /\ nodes' = <<>>
    /\ edges' = <<>>
    /\ selectedElementId' = null
    /\ selectedElementType' = "null"
    /\ outputRequests' = <<>>
    /\ projectName' = InitialProjectName
    /\ UNCHANGED <<computationalParams, isLocked, idCounter, now>>

\* variant: the project name is not reset
ClearNetworkKeepName ==
    /\ Observe([op |-> "clearNetwork"], RunAfterMutation)
    /\ history' = SaveToHistory(Snapshot, history)
    /\ nodes' = <<>>
    /\ edges' = <<>>
    /\ selectedElementId' = null
    /\ selectedElementType' = "null"
    /\ outputRequests' = <<>>
    /\ idCounter' = 1
    /\ UNCHANGED <<computationalParams, isLocked, projectName, now>>

\* clearNetwork (store.ts:317-328)
ClearNetwork ==
    /\ Observe([op |-> "clearNetwork"], RunAfterMutation)
    /\ history' = SaveToHistory(Snapshot, history)
    /\ nodes' = <<>>
    /\ edges' = <<>>
    /\ selectedElementId' = null
    /\ selectedElementType' = "null"
    /\ outputRequests' = <<>>
    /\ projectName' = InitialProjectName
    /\ idCounter' = 1
    /\ UNCHANGED <<computationalParams, isLocked, now>>

\* updateComputationalParams (store.ts:330-333)
UpdateComputationalParams(params) ==
    /\ Observe([op |-> "updateComputationalParams", params |-> params],
               RunAfterMutation)
    /\ history' = SaveToHistory(Snapshot, history)
    /\ computationalParams' = Merge(computationalParams, params)
    /\ UNCHANGED <<nodes, edges, selectedElementId, selectedElementType,
                   outputRequests, projectName, isLocked, idCounter, now>>

\* `req-${Date.now()}`
RequestId(t) == <<Letter>> \o ToStr(t)

\* addOutputRequest (store.ts:335-339); t is the value Date.now() returns,
\* which is never less than the value it returned before
AddOutputRequest(request, t) ==
    /\ Observe([op |-> "addOutputRequest", request |-> request],
               RunAfterMutation)
    /\ t >= now
    /\ now' = t
    /\ history' = SaveToHistory(Snapshot, history)
    /\ outputRequests' =
          Append(outputRequests, Merge(request, [id |-> RequestId(t)]))
    /\ UNCHANGED <<nodes, edges, selectedElementId, selectedElementType,
                   computationalParams, projectName, isLocked, idCounter>>

\* removeOutputRequest (store.ts:341-344)
RemoveOutputRequest(id) ==
    /\ Observe([op |-> "removeOutputRequest", id |-> id], RunAfterMutation)
    /\ history' = SaveToHistory(Snapshot, history)
    /\ outputRequests' = SelectSeq(outputRequests, LAMBDA r : r.id # id)
    /\ UNCHANGED <<nodes, edges, selectedElementId, selectedElementType,
                   computationalParams, projectName, isLocked, idCounter, now>>

\* the value set({ ...snapshot }) leaves in a field of the store: the
\* snapshot's when the snapshot holds the field, the current one otherwise
Spread(snap, field, current) ==
    IF field \in DOMAIN snap THEN snap[field] ELSE current

\* set({ ...snapshot, history: h })
ApplySnapshot(snap, h) ==
    /\ nodes' = Spread(snap, "nodes", nodes)
    /\ edges' = Spread(snap, "edges", edges)
    /\ computationalParams' =
          Spread(snap, "computationalParams", computationalParams)
    /\ outputRequests' = Spread(snap, "outputRequests", outputRequests)
    /\ selectedElementId' = Spread(snap, "selectedElementId", selectedElementId)
    /\ selectedElementType' =
          Spread(snap, "selectedElementType", selectedElementType)
    /\ isLocked' = Spread(snap, "isLocked", isLocked)
    /\ projectName' = Spread(snap, "projectName", projectName)
    /\ history' = h

\* variant: undo keeps only the state it leaves on history.future
UndoHistoryDroppingFuture(snap, h) ==
    [past |-> Slice1(h.past), future |-> <<snap>>]

\* the history undo leaves (store.ts:370-378)
UndoHistory(snap, h) ==
    [past |-> Slice1(h.past), future |-> <<snap>> \o h.future]

\* variant: with an empty history.past undo still moves the current state
\* onto history.future
UndoPushingFuture ==
    /\ Observe([op |-> "undo", afterLoad |-> last.op = "loadNetwork",
                afterRedo |-> last.op = "redo"],
               RunAfterUndo)
    /\ IF history.past = <<>>
       THEN /\ history' = UndoHistory(Snapshot, history)
            /\ UNCHANGED <<nodes, edges, computationalParams, outputRequests,
                           selectedElementId, selectedElementType, isLocked,
                           projectName>>
       ELSE ApplySnapshot(history.past[1], UndoHistory(Snapshot, history))
    /\ UNCHANGED <<idCounter, now>>

\* undo (store.ts:365-380); the call record tells whether the call before
\* it was loadNetwork, and whether it was redo
Undo ==
    /\ Observe([op |-> "undo", afterLoad |-> last.op = "loadNetwork",
                afterRedo |-> last.op = "redo"],
               RunAfterUndo)
    /\ IF history.past = <<>>
       THEN UNCHANGED <<nodes, edges, computationalParams, outputRequests,
                        selectedElementId, selectedElementType, isLocked,
                        projectName, history>>
       ELSE ApplySnapshot(history.past[1], UndoHistory(Snapshot, history))
    /\ UNCHANGED <<idCounter, now>>

\* variant: the redone snapshot stays on the future stack
RedoHistoryKeepFuture(snap, h) ==
    [past |-> <<snap>> \o h.past, future |-> h.future]

\* the history redo leaves (store.ts:387-395)
RedoHistory(snap, h) ==
    [past |-> <<snap>> \o h.past, future |-> Slice1(h.future)]

\* redo (store.ts:382-397); the call record tells whether the call before
\* it was undo
Redo ==
    /\ Observe([op |-> "redo", afterUndo |-> last.op = "undo"], RunAfterRedo)
    /\ IF history.future = <<>>
       THEN UNCHANGED <<nodes, edges, computationalParams, outputRequests,
                        selectedElementId, selectedElementType, isLocked,
                        projectName, history>>
       ELSE ApplySnapshot(history.future[1], RedoHistory(Snapshot, history))
    /\ UNCHANGED <<idCounter, now>>

\* applyNodeChanges(changes, nodes) of the flow library (store.ts:127), for
\* the changes the canvas emits when a node is dragged or removed
RECURSIVE ApplyNodeChanges(_, _)
ApplyNodeChanges(changes, ns) ==
    IF changes = <<>> THEN ns
    ELSE LET c == Head(changes)
             applied ==
                 IF c.type = "remove"
                 THEN SelectSeq(ns, LAMBDA n : n.id # c.id)
                 ELSE [i \in 1..Len(ns) |->
                          IF ns[i].id = c.id
                          THEN [ns[i] EXCEPT !.position = c.position]
                          ELSE ns[i]]
         IN ApplyNodeChanges(Tail(changes), applied)

\* applyEdgeChanges(changes, edges) of the flow library (store.ts:133), for
\* the changes the canvas emits when an edge is removed
RECURSIVE ApplyEdgeChanges(_, _)
ApplyEdgeChanges(changes, es) ==
    IF changes = <<>> THEN es
    ELSE LET c == Head(changes)
             applied == IF c.type = "remove"
                        THEN SelectSeq(es, LAMBDA e : e.id # c.id)
                        ELSE es
         IN ApplyEdgeChanges(Tail(changes), applied)

\* onNodesChange (store.ts:125-129)
OnNodesChange(changes) ==
    /\ Observe([op |-> "onNodesChange", changes |-> changes], NoRun)
    /\ nodes' = ApplyNodeChanges(changes, nodes)
    /\ UNCHANGED <<edges, selectedElementId, selectedElementType,
                   computationalParams, outputRequests, projectName, isLocked,
                   history, idCounter, now>>

\* onEdgesChange (store.ts:131-135)
OnEdgesChange(changes) ==
    /\ Observe([op |-> "onEdgesChange", changes |-> changes], NoRun)
    /\ edges' = ApplyEdgeChanges(changes, edges)
    /\ UNCHANGED <<nodes, selectedElementId, selectedElementType,
                   computationalParams, outputRequests, projectName, isLocked,
                   history, idCounter, now>>

----------------------------------------------------------------------------
(* The Designer: the event handlers that call the store (Designer.tsx) *)

\* a handler returns without calling the store
Returned(event) ==
    /\ Observe(event, run)
    /\ UNCHANGED storeVars

\* onNodesChange of the Designer (Designer.tsx:129-135)
DesignerOnNodesChange(changes) ==
    IF isLocked
    THEN Returned([op |-> "ignored", handler |-> "onNodesChange"])
    ELSE OnNodesChange(changes)

\* onEdgesChange of the Designer (Designer.tsx:137-143)
DesignerOnEdgesChange(changes) ==
    IF isLocked
    THEN Returned([op |-> "ignored", handler |-> "onEdgesChange"])
    ELSE OnEdgesChange(changes)

\* variant: a connection is forwarded whatever its ends
DesignerOnConnectAnyEnds(source, target) ==
    IF isLocked
    THEN Returned([op |-> "ignored", handler |-> "onConnect",
                   source |-> source, target |-> target])
    ELSE OnConnect(source, target)

\* onConnect of the Designer (Designer.tsx:145-159)
DesignerOnConnect(source, target) ==
    IF isLocked \/ source = target
    THEN Returned([op |-> "ignored", handler |-> "onConnect",
                   source |-> source, target |-> target])
    ELSE OnConnect(source, target)

\* handleKeyDown (Designer.tsx:98-123), the event target not being an input:
\* the zoom and view keys leave the store alone
HandleKeyDown(key) ==
    IF key = "l" THEN ToggleLock
    ELSE IF /\ key \in {"Delete", "Backspace"}
            /\ selectedElementId # null
            /\ selectedElementType # "null"
         THEN DeleteElement(selectedElementId, selectedElementType)
         ELSE Returned([op |-> "ignored", handler |-> "handleKeyDown"])

\* onNodeClick (Designer.tsx:161-163)
OnNodeClick(id) == SelectElement(id, "node")

\* onEdgeClick (Designer.tsx:165-167)
OnEdgeClick(id) == SelectElement(id, "edge")

\* reader.onload of handleFileChange (Designer.tsx:201-231) for a file that
\* holds a network
HandleFileChange(n) ==
    LoadNetwork(n.nodes, n.edges, n.params, n.requests, n.name)

----------------------------------------------------------------------------
(* The diagram: level assignment and drawing of generateSystemDiagramSVG *)

\* const reservoirs = diagramNodes.filter(n => n.type === 'reservoir')
Reservoirs(ns) == SelectSeq(ns, LAMBDA n : n.type = "reservoir")

\* adj[u] || [] : the targets of the edges leaving u, in edge order
Adj(es, u) ==
    LET leaving == SelectSeq(es, LAMBDA e : e.source = u)
    IN [i \in 1..Len(leaving) |-> leaving[i].target]

RECURSIVE Visit(_, _, _, _)
\* neighbors.forEach(v => ...) for the dequeued u (diagram-generator.ts:29-36):
\* a neighbour without a level gets one and is enqueued, a neighbour with a
\* level has it raised and is not enqueued
Visit(u, neighbors, lv, q) ==
    IF neighbors = <<>> THEN [levels |-> lv, queue |-> q]
    ELSE LET v == Head(neighbors) IN
         IF v \notin DOMAIN lv
         THEN Visit(u, Tail(neighbors), (v :> (lv[u] + 1)) @@ lv, Append(q, v))
         ELSE Visit(u, Tail(neighbors),
                    [lv EXCEPT ![v] = Max(lv[v], lv[u] + 1)], q)

\* variant: the reservoirs are moved to the front of the nodes array that was
\* handed in, which is the array the store holds
LayoutStartSortingInput ==
    /\ pc = "start"
    /\ nodes' = Reservoirs(nodes)
                 \o SelectSeq(nodes, LAMBDA n : n.type # "reservoir")
    /\ levels' = [id \in NodeIds(Reservoirs(diagramNodes)) |-> 0]
    /\ queue' = [i \in 1..Len(Reservoirs(diagramNodes)) |->
                    Reservoirs(diagramNodes)[i].id]
    /\ dequeued' = <<>>
    /\ pc' = "loop"
    /\ UNCHANGED <<diagramNodes, diagramEdges, svgContent>>
    /\ UNCHANGED <<edges, selectedElementId, selectedElementType,
                   computationalParams, outputRequests, isLocked, projectName,
                   history, idCounter, now, obsVars>>

\* variant: levels is kept between the calls and not created by each call
LayoutStartKeepingLevels ==
    /\ pc = "start"
    /\ levels' = [id \in DOMAIN levels \cup NodeIds(Reservoirs(diagramNodes)) |->
                    IF id \in NodeIds(Reservoirs(diagramNodes)) THEN 0
                    ELSE levels[id]]
    /\ queue' = [i \in 1..Len(Reservoirs(diagramNodes)) |->
                    Reservoirs(diagramNodes)[i].id]
    /\ dequeued' = <<>>
    /\ pc' = "loop"
    /\ UNCHANGED <<diagramNodes, diagramEdges, svgContent>>
    /\ UNCHANGED <<storeVars, obsVars>>

\* diagram-generator.ts:9-24
LayoutStart ==
    /\ pc = "start"
    /\ levels' = [id \in NodeIds(Reservoirs(diagramNodes)) |-> 0]
    /\ queue' = [i \in 1..Len(Reservoirs(diagramNodes)) |->
                    Reservoirs(diagramNodes)[i].id]
    /\ dequeued' = <<>>
    /\ pc' = "loop"
    /\ UNCHANGED <<diagramNodes, diagramEdges, svgContent>>
    /\ UNCHANGED <<storeVars, obsVars>>

\* one iteration of while (queue.length > 0) (diagram-generator.ts:26-37)
LayoutStep ==
    /\ pc = "loop"
    /\ queue # <<>>
    /\ LET u == Head(queue)
           r == Visit(u, Adj(diagramEdges, u), levels, Tail(queue))
       IN /\ levels' = r.levels
          /\ queue' = r.queue
          /\ dequeued' = Append(dequeued, u)
    /\ UNCHANGED <<diagramNodes, diagramEdges, pc, svgContent>>
    /\ UNCHANGED <<storeVars, obsVars>>

\* variant: a node without a level is put in the column after the reservoirs
LevelOfUnreachedApart(id) == IF id \in DOMAIN levels THEN levels[id] ELSE 1

\* levels[n.id] || 0 (diagram-generator.ts:42)
LevelOf(id) == IF id \in DOMAIN levels THEN levels[id] ELSE 0

\* variant: the level is not multiplied by the column spacing
PosXNoSpacing(id) == 80 + LevelOf(id)

\* x: 80 + lvl * spacingX (diagram-generator.ts:54)
PosX(id) == 80 + LevelOf(id) * 180

\* levelsMap[lvl]: the ids of the nodes of the level, in node order
\* (diagram-generator.ts:40-45)
LevelsMap(lvl) ==
    LET atLevel == SelectSeq(diagramNodes, LAMBDA n : LevelOf(n.id) = lvl)
    IN [i \in 1..Len(atLevel) |-> atLevel[i].id]

\* the keys of levelsMap
LevelKeys == {LevelOf(id) : id \in NodeIds(diagramNodes)}

\* the last index at which the list of ids holds id, counted from 0: when
\* nodeIds.forEach writes posMap[id] twice the later value stays
LastIndexOf(ids, id) ==
    (CHOOSE i \in 1..Len(ids) :
        ids[i] = id /\ \A j \in (i + 1)..Len(ids) : ids[j] # id) - 1

\* variant: every node of a level is put at the middle of the column
PosYAtMiddle(id) == 750 \div 2

\* startY + idx * spacingY (diagram-generator.ts:51-55)
PosY(id) ==
    LET nodeIds == LevelsMap(LevelOf(id))
        startY == (750 - (Len(nodeIds) - 1) * 140) \div 2
    IN startY + LastIndexOf(nodeIds, id) * 140

\* posMap (diagram-generator.ts:48-58): a position for the id of every node
PosMap == [id \in NodeIds(diagramNodes) |-> [x |-> PosX(id), y |-> PosY(id)]]

\* Math.max(1300, (Object.keys(levelsMap).length + 1) * spacingX)
SvgWidth == Max(1300, (Cardinality(LevelKeys) + 1) * 180)

\* const svgHeight = 750 (diagram-generator.ts:61)
SvgHeight == 750

\* findNode(id) finds a node (diagram-generator.ts:63)
FindNode(id) == \E i \in 1..Len(diagramNodes) : diagramNodes[i].id = id

\* variant: only the ids the traversal gave a level have a position
EdgeIsDrawnReachedOnly(edge) ==
    /\ FindNode(edge.source) /\ FindNode(edge.target)
    /\ edge.source \in DOMAIN levels /\ edge.target \in DOMAIN levels

\* the edge passes both early returns of the loop that draws the edges
\* (diagram-generator.ts:90-98)
EdgeIsDrawn(edge) ==
    /\ FindNode(edge.source) /\ FindNode(edge.target)
    /\ edge.source \in DOMAIN PosMap /\ edge.target \in DOMAIN PosMap

\* the paths appended to svgContent by edges.forEach, in edge order
\* (diagram-generator.ts:90-132)
DrawnEdges ==
    LET drawn == SelectSeq(diagramEdges, EdgeIsDrawn)
    IN [i \in 1..Len(drawn) |->
          [id |-> drawn[i].id, p1 |-> PosMap[drawn[i].source],
           p2 |-> PosMap[drawn[i].target]]]

\* the shapes appended to svgContent by diagramNodes.forEach, in node order
\* (diagram-generator.ts:158-229); posMap holds every node's id
DrawnNodes ==
    [i \in 1..Len(diagramNodes) |->
        [id |-> diagramNodes[i].id, type |-> diagramNodes[i].type,
         pos |-> PosMap[diagramNodes[i].id]]]

\* nothing has been drawn
NoSvg == [drawn |-> FALSE, width |-> 0, edges |-> <<>>, nodes |-> <<>>]

\* the loop ends with the queue empty; the positions are computed and the
\* edges and the nodes are drawn (diagram-generator.ts:39-231)
LayoutDone ==
    /\ pc = "loop"
    /\ queue = <<>>
    /\ pc' = "done"
    /\ svgContent' = [drawn |-> TRUE, width |-> SvgWidth,
                      edges |-> DrawnEdges, nodes |-> DrawnNodes]
    /\ UNCHANGED <<diagramNodes, diagramEdges, levels, queue, dequeued>>
    /\ UNCHANGED <<storeVars, obsVars>>

----------------------------------------------------------------------------
(* Inputs of the calls *)

AddTypes == {"reservoir", "junction"}
Positions == {<<0, 0>>}

\* an id that no element carries
MissingId == <<Letter, Letter>>

\* the ids a call can address: those of the store's elements and a missing one
TargetIds == NodeIds(nodes) \cup EdgeIds(edges) \cup {MissingId}

NodePartials == {[elevation |-> 7500]}
EdgePartials == {[type |-> "dummy"], [label |-> Label("P", 0)],
                 [type |-> "conduit"],
                 [type |-> "dummy", label |-> Label("P", 0)],
                 [label |-> EmptyLabel, length |-> 5]}
ParamPartials == {[tmax |-> 100]}
ProjectNames == {"Renamed"}
Requests == {[elementId |-> <<1>>, elementType |-> "node",
              requestType |-> "HISTORY", variables |-> <<"Q">>]}

LoadedNode(id, type) ==
    [id |-> id, type |-> type, position |-> <<0, 0>>,
     data |-> InitialData(type, id)]

\* an edge as a saved file holds it, with the attributes of a variable
\* conduit in a nested bag
WithVariableData(edge, bag) ==
    [edge EXCEPT !.data = Merge(@, [variableData |-> bag])]

\* the networks handed to loadNetwork: ids are unique within each
LoadInputs ==
    { [nodes |-> <<LoadedNode(<<1>>, "reservoir"), LoadedNode(<<7>>, "junction"),
                   LoadedNode(<<2>>, "junction")>>,
       edges |-> <<NewEdge(<<3>>, <<1>>, <<7>>, Label("C", 1)),
                   WithVariableData(
                       NewEdge(<<4>>, <<7>>, <<2>>, Label("C", 2)),
                       [distance |-> 1000, area |-> 20, diameter |-> 70])>>,
       params |-> <<>>, requests |-> <<>>, name |-> <<>>],
      [nodes |-> <<LoadedNode(<<Letter>>, "junction")>>,
       edges |-> <<>>,
       params |-> <<[dtcomp |-> 5, dtout |-> 50, tmax |-> 1000]>>,
       requests |-> << <<>> >>, name |-> <<"Loaded">>] }

\* where a dragged node is dropped
DropPositions == {<<100, 50>>}

\* the changes the canvas reports for the nodes of the store
NodeChanges ==
    {[type |-> "position", id |-> id, position |-> p] :
        id \in NodeIds(nodes), p \in DropPositions}
    \cup {[type |-> "remove", id |-> id] : id \in NodeIds(nodes)}

\* the changes the canvas reports for the edges of the store
EdgeChanges == {[type |-> "remove", id |-> id] : id \in EdgeIds(edges)}

\* the keys pressed outside an input field
Keys == {"l", "Delete", "Backspace", "f"}

----------------------------------------------------------------------------
(* Specifications *)

InitStore ==
    /\ nodes = <<>>
    /\ edges = <<>>
    /\ selectedElementId = null
    /\ selectedElementType = "null"
    /\ computationalParams = InitialParams
    /\ outputRequests = <<>>
    /\ isLocked = FALSE
    /\ projectName = InitialProjectName
    /\ history = [past |-> <<>>, future |-> <<>>]
    /\ idCounter = 1
    /\ now = 0
    /\ last = [op |-> "init"]
    /\ pre = Store
    /\ run = NoRun
    /\ firstRun = <<>>

\* no diagram is being generated
LayoutIdle ==
    /\ diagramNodes = <<>>
    /\ diagramEdges = <<>>
    /\ levels = <<>>
    /\ queue = <<>>
    /\ dequeued = <<>>
    /\ pc = "idle"
    /\ svgContent = NoSvg

Init == InitStore /\ LayoutIdle /\ budget = MaxOps

\* any call on the store, with any input
Next ==
    \/ \E t \in AddTypes, p \in Positions : AddNode(t, p)
    \/ \E s \in NodeIds(nodes), t \in NodeIds(nodes) : OnConnect(s, t)
    \/ \E id \in TargetIds, d \in NodePartials : UpdateNodeData(id, d)
    \/ \E id \in TargetIds, d \in EdgePartials : UpdateEdgeData(id, d)
    \/ \E id \in TargetIds, t \in {"node", "edge"} : DeleteElement(id, t)
    \/ \E id \in NodeIds(nodes) : SelectElement(id, "node")
    \/ \E id \in EdgeIds(edges) : SelectElement(id, "edge")
    \/ SelectElement(null, "null")
    \/ ToggleLock
    \/ \E name \in ProjectNames : SetProjectName(name)
    \/ \E n \in LoadInputs :
          LoadNetwork(n.nodes, n.edges, n.params, n.requests, n.name)
    \/ ClearNetwork
    \/ \E p \in ParamPartials : UpdateComputationalParams(p)
    \/ \E r \in Requests, t \in 0..MaxClock : AddOutputRequest(r, t)
    \/ \E id \in {outputRequests[i].id : i \in 1..Len(outputRequests)}
                 \cup {MissingId} : RemoveOutputRequest(id)
    \/ Undo
    \/ Redo

Spec == Init /\ [][Next]_vars

\* the calls that create, change, remove or restore nodes and edges
InitIds == InitStore /\ LayoutIdle /\ budget = MaxIdOps

NextIds ==
    \/ \E t \in AddTypes, p \in Positions : AddNode(t, p)
    \/ \E s \in NodeIds(nodes), t \in NodeIds(nodes) : OnConnect(s, t)
    \/ \E id \in TargetIds, d \in NodePartials : UpdateNodeData(id, d)
    \/ \E id \in TargetIds, d \in EdgePartials : UpdateEdgeData(id, d)
    \/ \E id \in TargetIds, t \in {"node", "edge"} : DeleteElement(id, t)
    \/ \E n \in LoadInputs :
          LoadNetwork(n.nodes, n.edges, n.params, n.requests, n.name)
    \/ ClearNetwork
    \/ Undo
    \/ Redo

SpecIds == InitIds /\ [][NextIds]_vars

\* a long editing session: nodes are added, undo and redo are called.
\* A run of mutations starts with a short history.past and goes on at the tip
\* of the history; undo is called while it undoes something or while it is
\* counted against the run; redo is called while it redoes something.
HistMutate ==
    /\ history.future = <<>>
    /\ idCounter <= MaxMutations
    /\ run.phase = "mutate" \/ Len(history.past) <= MaxPrelude
    /\ \E p \in Positions : AddNode("junction", p)

HistUndo ==
    /\ \/ history.past # <<>>
       \/ run.phase \in {"mutate", "undo"} /\ run.undos < Len(run.log)
    /\ Undo

HistRedo ==
    /\ \/ history.future # <<>>
       \/ run.phase = "redo" /\ run.redos < Len(run.log)
    /\ Redo

InitHist == InitStore /\ LayoutIdle /\ budget = Unlimited

NextHist == HistMutate \/ HistUndo \/ HistRedo

SpecHist == InitHist /\ [][NextHist]_vars

\* the graphs handed to the diagram generator
LayoutTypes == {"reservoir", "junction"}
DanglingId == <<Letter>>

\* the node lists of at most max nodes
NodeListsUpTo(max) ==
    UNION { { [i \in 1..n |-> [id |-> ToStr(i), type |-> t[i]]] :
              t \in [1..n -> LayoutTypes] } : n \in 0..max }

\* the edge lists of at most max edges whose ends are among ids
EdgeListsUpTo(ids, max) ==
    UNION { { [i \in 1..k |-> [id |-> <<Letter>> \o ToStr(i),
                               source |-> c[i][1], target |-> c[i][2]]] :
              c \in [1..k -> ids \X ids] } : k \in 0..max }

LayoutNodeLists == NodeListsUpTo(MaxLayoutNodes)

LayoutEdgeLists(ids) == EdgeListsUpTo(ids, MaxLayoutEdges)

InitLayout ==
    /\ InitStore
    /\ budget = 0
    /\ diagramNodes \in LayoutNodeLists
    /\ diagramEdges \in LayoutEdgeLists(NodeIds(diagramNodes) \cup {DanglingId})
    /\ levels = <<>>
    /\ queue = <<>>
    /\ dequeued = <<>>
    /\ pc = "start"
    /\ svgContent = NoSvg

NextLayout == LayoutStart \/ LayoutStep \/ LayoutDone

SpecLayout == InitLayout /\ [][NextLayout]_vars

\* the same call on the smaller graphs that show which edges are drawn
InitDraw ==
    /\ InitStore
    /\ budget = 0
    /\ diagramNodes \in NodeListsUpTo(MaxDrawNodes)
    /\ diagramEdges \in EdgeListsUpTo(NodeIds(diagramNodes) \cup {DanglingId},
                                      MaxDrawEdges)
    /\ levels = <<>>
    /\ queue = <<>>
    /\ dequeued = <<>>
    /\ pc = "start"
    /\ svgContent = NoSvg

SpecDraw == InitDraw /\ [][NextLayout]_vars

\* the permutations of 1..n
Perms(n) == {f \in [1..n -> 1..n] : \A i, j \in 1..n : i # j => f[i] # f[j]}

ChainTypes == {"junction", "surgeTank"}

\* the chains reservoir -> n1 -> ... -> nk, k <= MaxChain: the node with id
\* i + 1 is the i-th node after the reservoir, and the nodes and the edges
\* are listed in any order
InitChain ==
    /\ InitStore
    /\ budget = 0
    /\ \E k \in 0..MaxChain :
          /\ \E order \in Perms(k + 1), t \in [2..(k + 1) -> ChainTypes] :
                diagramNodes =
                    [i \in 1..(k + 1) |->
                        [id |-> ToStr(order[i]),
                         type |-> IF order[i] = 1 THEN "reservoir"
                                  ELSE t[order[i]]]]
          /\ \E order \in Perms(k) :
                diagramEdges =
                    [i \in 1..k |->
                        [id |-> <<Letter>> \o ToStr(i),
                         source |-> ToStr(order[i]),
                         target |-> ToStr(order[i] + 1)]]
    /\ levels = <<>>
    /\ queue = <<>>
    /\ dequeued = <<>>
    /\ pc = "start"
    /\ svgContent = NoSvg

SpecChain == InitChain /\ [][NextLayout]_vars

\* what a call of generateSystemDiagramSVG has computed
LayoutResult == [levels |-> levels, svg |-> svgContent]

\* the first call has returned: its result is kept and the function is
\* called a second time with the same two lists
RenderAgain ==
    /\ pc = "done"
    /\ firstRun = <<>>
    /\ firstRun' = <<LayoutResult>>
    /\ svgContent' = NoSvg
    /\ pc' = "start"
    /\ UNCHANGED <<diagramNodes, diagramEdges, levels, queue, dequeued>>
    /\ UNCHANGED <<storeVars, last, pre, run, budget>>

\* two calls in a row on the same graph
NextTwice == LayoutStart \/ LayoutStep \/ LayoutDone \/ RenderAgain

SpecTwice == InitDraw /\ [][NextTwice]_vars

\* the Designer calls generateSystemDiagram(nodes, edges) with the nodes and
\* the edges of the store (Designer.tsx:249, 266, 386)
RenderCall ==
    /\ pc \in {"idle", "done"}
    /\ diagramNodes' = nodes
    /\ diagramEdges' = edges
    /\ levels' = <<>>
    /\ queue' = <<>>
    /\ dequeued' = <<>>
    /\ svgContent' = NoSvg
    /\ pc' = "start"
    /\ UNCHANGED <<storeVars, obsVars>>

\* a call on the store; the diagram is generated synchronously, so no call
\* on the store is made while it is being generated
StoreCall == pc \in {"idle", "done"} /\ Next

\* an editing session in which the diagram is generated between the calls
InitRender == InitStore /\ LayoutIdle /\ budget = MaxRenderOps

NextRender == StoreCall \/ RenderCall \/ LayoutStart \/ LayoutStep \/ LayoutDone

SpecRender == InitRender /\ [][NextRender]_vars

\* a session in the Designer: a file is opened, elements are clicked, nodes
\* are dragged, elements are removed and connected on the canvas, keys are
\* pressed, undo and redo are called
InitDesigner == InitStore /\ LayoutIdle /\ budget = MaxEvents

NextDesigner ==
    \/ \E n \in LoadInputs : HandleFileChange(n)
    \/ \E id \in NodeIds(nodes) : OnNodeClick(id)
    \/ \E id \in EdgeIds(edges) : OnEdgeClick(id)
    \/ \E c \in NodeChanges : DesignerOnNodesChange(<<c>>)
    \/ \E c \in EdgeChanges : DesignerOnEdgesChange(<<c>>)
    \/ \E s \in NodeIds(nodes), t \in NodeIds(nodes) : DesignerOnConnect(s, t)
    \/ \E k \in Keys : HandleKeyDown(k)
    \/ Undo
    \/ Redo

SpecDesigner == InitDesigner /\ [][NextDesigner]_vars

\* an editing session that changes each field of the snapshot and goes back
\* and forth in the history
InitRoundTrip == InitStore /\ LayoutIdle /\ budget = MaxRoundTripOps

NextRoundTrip ==
    \/ \E p \in Positions : AddNode("junction", p)
    \/ \E s \in NodeIds(nodes), t \in NodeIds(nodes) : OnConnect(s, t)
    \/ \E p \in ParamPartials : UpdateComputationalParams(p)
    \/ \E r \in Requests, t \in 0..MaxClock : AddOutputRequest(r, t)
    \/ Undo
    \/ Redo

SpecRoundTrip == InitRoundTrip /\ [][NextRoundTrip]_vars

\* a call that adds or connects nodes, clears the network or moves in the
\* history, made before the diagram is generated
EditCall ==
    /\ pc = "idle"
    /\ \/ \E t \in AddTypes, p \in Positions : AddNode(t, p)
       \/ \E s \in NodeIds(nodes), t \in NodeIds(nodes) : OnConnect(s, t)
       \/ ClearNetwork
       \/ Undo
       \/ Redo

\* handleGenerateInp generates the diagram of the store's network
\* (Designer.tsx:249)
ExportCall == pc = "idle" /\ RenderCall

\* an editing session that ends with the generation of the diagram
InitExport == InitStore /\ LayoutIdle /\ budget = MaxExportOps

NextExport == EditCall \/ ExportCall \/ LayoutStart \/ LayoutStep \/ LayoutDone

SpecExport == InitExport /\ [][NextExport]_vars

\* the generation is one synchronous call: once started it runs on
FairExport == SpecExport /\ WF_vars(LayoutStart \/ LayoutStep \/ LayoutDone)

\* the id of the i-th stop of a path from node 1 to node 2 through k ids
\* that no node carries
StopOf(i, k) ==
    IF i = 0 THEN ToStr(1)
    ELSE IF i = k + 1 THEN ToStr(2)
    ELSE <<Letter>> \o ToStr(i)

\* the graphs that fill one column (nodes without edges), and the graphs in
\* which a reservoir leads to a junction through ids that no node carries
InitCanvas ==
    /\ InitStore
    /\ budget = 0
    /\ \/ /\ diagramNodes \in NodeListsUpTo(MaxColumn)
          /\ diagramEdges = <<>>
       \/ /\ diagramNodes = <<[id |-> ToStr(1), type |-> "reservoir"],
                              [id |-> ToStr(2), type |-> "junction"]>>
          /\ \E k \in 0..MaxGap :
                diagramEdges =
                    [i \in 1..(k + 1) |->
                        [id |-> <<Letter>> \o ToStr(i),
                         source |-> StopOf(i - 1, k), target |-> StopOf(i, k)]]
    /\ levels = <<>>
    /\ queue = <<>>
    /\ dequeued = <<>>
    /\ pc = "start"
    /\ svgContent = NoSvg

SpecCanvas == InitCanvas /\ [][NextLayout]_vars

----------------------------------------------------------------------------
(* Properties of the history *)

\* number of mutations of the run being followed
RunLength == Len(run.log)

\* the snapshot taken before the first mutation of the run
RunBase == run.log[Len(run.log)]

\* C1 as stated: after N tracked mutations and N calls of undo the snapshot
\* {nodes, edges, computationalParams, outputRequests} is the one taken before
\* the first of the N mutations, for every N >= 1.
C1_UndoRestoresAnyN ==
    (run.phase = "undo" /\ run.undos = RunLength) => Snapshot = RunBase

\* C1 amended: the same for every N from 1 to 50, the size history.past is
\* cut to; whatever history.past held when the run started.
C1_UndoRestores ==
    (run.phase = "undo" /\ run.undos = RunLength /\ RunLength <= HistoryCap)
        => Snapshot = RunBase

\* a run of exactly 50 mutations, started with a non-empty history.past, has
\* been undone by 50 calls of undo
C1_Witness ==
    /\ run.phase = "undo"
    /\ run.undos = RunLength
    /\ RunLength = HistoryCap
    /\ ~run.emptyStart

\* C2: after N tracked mutations and N calls of undo, N calls of redo leave
\* the snapshot equal to the one that followed the last mutation.
C2_RedoRestores ==
    (run.phase = "redo" /\ run.redos = RunLength) => Snapshot = run.final

\* more mutations than history.past holds have been undone and redone
C2_Witness ==
    /\ run.phase = "redo"
    /\ run.redos = RunLength
    /\ RunLength > HistoryCap
    /\ last.op = "redo"

\* C4: history.past and history.future never hold more than 50 snapshots.
C4_HistoryBounded ==
    /\ Len(history.past) <= HistoryCap
    /\ Len(history.future) <= HistoryCap

\* redo has just pushed the 50th snapshot onto history.past
C4_Witness ==
    /\ last.op = "redo"
    /\ Len(pre.history.past) = HistoryCap - 1
    /\ Len(history.past) = HistoryCap

\* C5: 60 tracked mutations from an empty history leave exactly 50 snapshots
\* in history.past: those taken before the 50 most recent mutations, the most
\* recent first.
C5_SixtyMutations ==
    (run.phase = "mutate" /\ run.emptyStart /\ RunLength = 60)
        => /\ Len(history.past) = 50
           /\ \A i \in 1..50 : history.past[i] = run.log[i]

\* the 60th mutation of a run started on an empty history has been made
C5_Witness == run.phase = "mutate" /\ run.emptyStart /\ RunLength = 60

\* C6: right after a tracked mutation history.future is empty, and a redo
\* called with an empty history.future changes nothing.
C6_MutationClearsFuture ==
    /\ last.op \in TrackedOps => history.future = <<>>
    /\ (last.op = "redo" /\ pre.history.future = <<>>) => Store = pre

\* a tracked mutation has been made while history.future held snapshots
C6_Witness == last.op \in TrackedOps /\ pre.history.future # <<>>

----------------------------------------------------------------------------
(* Properties of the elements of the store *)

\* no two elements of the sequence carry the same id
UniqueIds(s) == \A i, j \in 1..Len(s) : i # j => s[i].id # s[j].id

\* C3: no two nodes share an id and no two edges share an id, and the id
\* that addNode or onConnect generates is not the id of an element that is
\* already in the store.
C3_UniqueIds ==
    /\ UniqueIds(nodes)
    /\ UniqueIds(edges)
    /\ last.op \in {"addNode", "onConnect"}
          => ToStr(pre.idCounter) \notin NodeIds(pre.nodes) \cup EdgeIds(pre.edges)

\* the j-th smallest element of the set of numbers S
NthOf(S, j) == CHOOSE i \in S : Cardinality({k \in S : k <= i}) = j

\* after holds exactly the elements of before at the indices S, unchanged
\* and in their order
KeptInOrder(after, before, S) ==
    /\ Len(after) = Cardinality(S)
    /\ \A j \in 1..Len(after) : after[j] = before[NthOf(S, j)]

\* C7: after deleteElement(id, 'node') no node has that id and no edge has it
\* as source or target; every other node and every edge not incident to the
\* id is kept unchanged, in the original order.
C7_DeleteNodeCascades ==
    (last.op = "deleteElement" /\ last.type = "node") =>
        /\ \A i \in 1..Len(nodes) : nodes[i].id # last.id
        /\ \A i \in 1..Len(edges) :
              edges[i].source # last.id /\ edges[i].target # last.id
        /\ KeptInOrder(nodes, pre.nodes,
                       {i \in 1..Len(pre.nodes) : pre.nodes[i].id # last.id})
        /\ KeptInOrder(edges, pre.edges,
                       {i \in 1..Len(pre.edges) :
                           /\ pre.edges[i].source # last.id
                           /\ pre.edges[i].target # last.id})

\* a node that an edge entered has been deleted, and another edge is kept
C7_Witness ==
    /\ last.op = "deleteElement"
    /\ last.type = "node"
    /\ last.id \in NodeIds(pre.nodes)
    /\ \E i \in 1..Len(pre.edges) : pre.edges[i].target = last.id
    /\ edges # <<>>

\* the integers that the ids of the loaded nodes and edges parse to
ParsedIds(ns, es) == {ParseIntOr0(id) : id \in NodeIds(ns) \cup EdgeIds(es)}

\* m is the largest of the parsed ids, and 0 when there is none
IsMaxParsedId(m, ns, es) ==
    /\ m \in ParsedIds(ns, es) \cup {0}
    /\ \A k \in ParsedIds(ns, es) \cup {0} : k <= m

\* an element has been appended to the sequence by the last call
Appended(after, before) ==
    Len(after) = Len(before) + 1 /\ SubSeq(after, 1, Len(before)) = before

\* C12: after loadNetwork the next id is M + 1, M the largest of the loaded
\* node and edge ids parsed as integers (0 for an id that does not parse and
\* for an empty network), and that is the id the node of the next addNode or
\* the edge of the next onConnect gets.
C12_NextIdAfterLoad ==
    /\ last.op = "loadNetwork" =>
          \E m \in ParsedIds(last.nodes, last.edges) \cup {0} :
             /\ IsMaxParsedId(m, last.nodes, last.edges)
             /\ GetId = ToStr(m + 1)
    /\ (last.op = "addNode" /\ Appended(nodes, pre.nodes)) =>
          nodes[Len(nodes)].id = ToStr(pre.idCounter)
    /\ (last.op = "onConnect" /\ Appended(edges, pre.edges)) =>
          edges[Len(edges)].id = ToStr(pre.idCounter)
    /\ last.op = "addNode" => Appended(nodes, pre.nodes)

\* a network whose largest id is 7 has been loaded and the node added by the
\* next call has id "8"
C12_Witness ==
    /\ last.op = "addNode"
    /\ IsMaxParsedId(7, pre.nodes, pre.edges)
    /\ pre.idCounter = 8
    /\ \E n \in LoadInputs : pre.nodes = n.nodes
    /\ nodes[Len(nodes)].id = <<8>>

\* the number of edges of the sequence whose data type is conduit
ConduitsIn(es) == Cardinality({i \in 1..Len(es) : es[i].data.type = "conduit"})

\* C13: the edge that onConnect creates has data type conduit and the label
\* "C" followed by n + 1, n the number of conduit edges in the store just
\* before the call; dummy edges are not counted.
C13_ConnectLabel ==
    (last.op = "onConnect" /\ Appended(edges, pre.edges)) =>
        LET created == edges[Len(edges)] IN
        /\ created.source = last.source /\ created.target = last.target
        /\ created.data.type = "conduit"
        /\ created.data.label = Label("C", ConduitsIn(pre.edges) + 1)

\* onConnect has created the edge labelled "C3" in a store that held two
\* conduit edges
C13_Witness ==
    /\ last.op = "onConnect"
    /\ Appended(edges, pre.edges)
    /\ ConduitsIn(pre.edges) = 2
    /\ edges[Len(edges)].data.label = Label("C", 3)

\* onConnect has created an edge in a store that held a dummy edge
C13_DummyNotCounted ==
    /\ last.op = "onConnect"
    /\ Appended(edges, pre.edges)
    /\ ConduitsIn(pre.edges) < Len(pre.edges)

\* C14: undo called directly after loadNetwork leaves the loaded nodes and
\* edges in place: it never replaces them with a snapshot taken before the
\* load.
C14_UndoAfterLoadKeepsNetwork ==
    (last.op = "undo" /\ last.afterLoad) =>
        nodes = pre.nodes /\ edges = pre.edges

\* C15: loadNetwork leaves history.past and history.future as they were
\* before the call and sets selectedElementId and selectedElementType to null.
C15_LoadKeepsHistory ==
    last.op = "loadNetwork" =>
        /\ history.past = pre.history.past
        /\ history.future = pre.history.future
        /\ selectedElementId = null
        /\ selectedElementType = "null"

\* a network has been loaded into a store that held snapshots in
\* history.past and had an element selected
C15_Witness ==
    /\ last.op = "loadNetwork"
    /\ pre.history.past # <<>>
    /\ pre.selectedElementId # null
    /\ nodes = last.nodes

\* a network has been loaded into a store that held snapshots in
\* history.future
C15_LoadWithFuture == last.op = "loadNetwork" /\ pre.history.future # <<>>

\* C16: updateNodeData with an id that no node carries leaves the nodes
\* element for element as they were, and updateEdgeData with an id that no
\* edge carries leaves the edges element for element as they were; the calls
\* end normally.
C16_UpdateMissingKeepsCollection ==
    /\ (last.op = "updateNodeData" /\ last.id \notin NodeIds(pre.nodes)) =>
          /\ Len(nodes) = Len(pre.nodes)
          /\ \A i \in 1..Len(nodes) : nodes[i] = pre.nodes[i]
    /\ (last.op = "updateEdgeData" /\ last.id \notin EdgeIds(pre.edges)) =>
          /\ Len(edges) = Len(pre.edges)
          /\ \A i \in 1..Len(edges) : edges[i] = pre.edges[i]

\* updateEdgeData has been called with an id that no edge carries on a store
\* that holds edges
C16_Witness ==
    /\ last.op = "updateEdgeData"
    /\ last.id \notin EdgeIds(pre.edges)
    /\ pre.edges # <<>>
    /\ "type" \in DOMAIN last.data

\* updateNodeData has been called with an id that no node carries on a store
\* that holds nodes
C16_MissingNode ==
    /\ last.op = "updateNodeData"
    /\ last.id \notin NodeIds(pre.nodes)
    /\ pre.nodes # <<>>

\* the last call was updateNodeData, updateEdgeData or deleteElement with an
\* id that no node and no edge of the store carried
MissingIdMutation ==
    /\ last.op \in {"updateNodeData", "updateEdgeData", "deleteElement"}
    /\ last.id \notin NodeIds(pre.nodes) \cup EdgeIds(pre.edges)

\* C17: updateNodeData, updateEdgeData or deleteElement with an id matching
\* no element changes nothing in the store: nodes and edges, and also
\* history.past and history.future, are as before the call.
C17_MissingIdIsNoOp ==
    MissingIdMutation =>
        /\ nodes = pre.nodes /\ edges = pre.edges
        /\ history.past = pre.history.past
        /\ history.future = pre.history.future

\* such a call has been made while history.future held a snapshot to redo
C17_RedoPending == MissingIdMutation /\ pre.history.future # <<>>

\* C18: undo called with an empty history.past and redo called with an empty
\* history.future leave every field of the store as it was (nodes, edges,
\* computationalParams, outputRequests, the selection, the lock, the project
\* name, history.past and history.future), and end normally.
C18_EmptyStackNoOp ==
    /\ (last.op = "undo" /\ pre.history.past = <<>>) => Store = pre
    /\ (last.op = "redo" /\ pre.history.future = <<>>) => Store = pre

\* undo has been called with an empty history.past on a locked store that
\* holds nodes and edges
C18_Witness ==
    /\ last.op = "undo"
    /\ pre.history.past = <<>>
    /\ pre.nodes # <<>> /\ pre.edges # <<>>
    /\ pre.isLocked

\* redo has been called with an empty history.future on a store that holds
\* nodes and snapshots in history.past
C18_RedoOnEmptyFuture ==
    /\ last.op = "redo"
    /\ pre.history.future = <<>>
    /\ pre.nodes # <<>>
    /\ pre.history.past # <<>>

UntrackedOps == {"selectElement", "toggleLock", "setProjectName"}

\* C19: selectElement, toggleLock and setProjectName leave history.past and
\* history.future as they were (no snapshot is pushed, the future stack is
\* not cleared) and leave nodes, edges, computationalParams and
\* outputRequests as they were.
C19_UntrackedOpsKeepHistory ==
    last.op \in UntrackedOps =>
        /\ history.past = pre.history.past
        /\ history.future = pre.history.future
        /\ nodes = pre.nodes /\ edges = pre.edges
        /\ computationalParams = pre.computationalParams
        /\ outputRequests = pre.outputRequests

\* the project has been renamed while history.future held a snapshot to redo
C19_Witness ==
    /\ last.op = "setProjectName"
    /\ projectName # pre.projectName
    /\ pre.history.future # <<>>

\* the lock has been toggled while history.past held a snapshot
C19_ToggleWithPast ==
    /\ last.op = "toggleLock"
    /\ isLocked # pre.isLocked
    /\ pre.history.past # <<>>

\* the selection has been changed while history.past held a snapshot
C19_SelectWithPast ==
    /\ last.op = "selectElement"
    /\ selectedElementId # pre.selectedElementId
    /\ pre.history.past # <<>>

SnapshotFields == {"nodes", "edges", "computationalParams", "outputRequests"}

\* C20: undo and redo never change selectedElementId, selectedElementType,
\* isLocked or projectName, and every snapshot of the history holds exactly
\* nodes, edges, computationalParams and outputRequests; undoing a
\* clearNetwork restores the graph and not the project name.
C20_UndoRedoKeepUntracked ==
    /\ last.op \in {"undo", "redo"} =>
          /\ selectedElementId = pre.selectedElementId
          /\ selectedElementType = pre.selectedElementType
          /\ isLocked = pre.isLocked
          /\ projectName = pre.projectName
    /\ \A i \in 1..Len(history.past) : DOMAIN history.past[i] = SnapshotFields
    /\ \A i \in 1..Len(history.future) :
          DOMAIN history.future[i] = SnapshotFields

\* the clearNetwork of a loaded and named network has been undone: the
\* loaded node is back and the project name is still the one clearNetwork set
C20_Witness ==
    /\ last.op = "undo"
    /\ pre.nodes = <<>>
    /\ nodes = <<LoadedNode(<<Letter>>, "junction")>>
    /\ projectName = InitialProjectName

\* C21: clearNetwork pushes the snapshot of before the call onto
\* history.past, so that past[0] is that snapshot, and leaves nodes, edges
\* and outputRequests empty, the selection null, the project name
\* "Untitled Network" and the id counter at 1: the next id is "1".
C21_ClearNetwork ==
    last.op = "clearNetwork" =>
        /\ history.past # <<>>
        /\ history.past[1] = SnapshotOf(pre)
        /\ nodes = <<>> /\ edges = <<>> /\ outputRequests = <<>>
        /\ selectedElementId = null /\ selectedElementType = "null"
        /\ projectName = "Untitled Network"
        /\ idCounter = 1
        /\ GetId = <<1>>

\* a loaded network with an element selected has been cleared
C21_Witness ==
    /\ last.op = "clearNetwork"
    /\ pre.nodes # <<>> /\ pre.edges # <<>>
    /\ pre.selectedElementId # null
    /\ pre.idCounter # 1

\* a store with an output request and a project name has been cleared
C21_ClearNamed ==
    /\ last.op = "clearNetwork"
    /\ pre.outputRequests # <<>>
    /\ pre.projectName # InitialProjectName

\* C22 as stated: after clearNetwork every field of the store other than the
\* history stacks (nodes, edges, outputRequests, computationalParams, the
\* selection, isLocked, projectName, the id counter) has the value it has in
\* the initial store.
C22_ClearResetsEveryField ==
    last.op = "clearNetwork" =>
        /\ nodes = <<>> /\ edges = <<>> /\ outputRequests = <<>>
        /\ computationalParams = InitialParams
        /\ selectedElementId = null /\ selectedElementType = "null"
        /\ isLocked = FALSE
        /\ projectName = InitialProjectName
        /\ idCounter = 1

\* C22 amended: after clearNetwork every field of the store other than the
\* history stacks, computationalParams and isLocked has the value it has in
\* the initial store; computationalParams and isLocked keep the values they
\* had before the call.
C22_ClearResetsGraphFields ==
    last.op = "clearNetwork" =>
        /\ [Store EXCEPT !.history = pre.history]
             = [pre EXCEPT !.nodes = <<>>, !.edges = <<>>,
                           !.outputRequests = <<>>,
                           !.selectedElementId = null,
                           !.selectedElementType = "null",
                           !.projectName = InitialProjectName,
                           !.idCounter = 1]

\* a locked store with changed computationalParams has been cleared
C22_Witness ==
    /\ last.op = "clearNetwork"
    /\ pre.isLocked
    /\ pre.computationalParams # InitialParams
    /\ isLocked
    /\ computationalParams # InitialParams

\* the last call was updateEdgeData and the edge at index i carried its id
UpdatedAt(i) ==
    /\ last.op = "updateEdgeData"
    /\ i \in 1..Len(pre.edges)
    /\ pre.edges[i].id = last.id

\* the partial of the last call names a type other than the edge's at i
TypeChangedAt(i) ==
    /\ UpdatedAt(i)
    /\ "type" \in DOMAIN last.data
    /\ last.data.type # pre.edges[i].data.type

\* the number of edges other than the updated one whose type was t
OthersOfType(t) ==
    Cardinality({j \in 1..Len(pre.edges) :
                    pre.edges[j].id # last.id /\ pre.edges[j].data.type = t})

\* C26: when updateEdgeData gives an existing edge another type, its label
\* becomes "C" (conduit) or "D" (dummy) followed by 1 + the number of other
\* edges that already have the new type, whatever label the partial carries;
\* when the partial carries no type or the edge's type, the label is the
\* partial's or the edge's own, not a generated one.
C26_TypeChangeRelabels ==
    \A i \in 1..Len(pre.edges) :
        /\ TypeChangedAt(i) =>
              /\ edges[i].data.type = last.data.type
              /\ edges[i].data.label =
                    Label(IF last.data.type = "conduit" THEN "C" ELSE "D",
                          1 + OthersOfType(last.data.type))
        /\ (UpdatedAt(i) /\ ~TypeChangedAt(i)) =>
              edges[i].data.label \in
                  {pre.edges[i].data.label}
                  \cup (IF "label" \in DOMAIN last.data
                        THEN {last.data.label} ELSE {})

\* a conduit has been turned into a dummy edge by a partial that carries a
\* label, and got the label "D1"
C26_Witness ==
    \E i \in 1..Len(pre.edges) :
        /\ TypeChangedAt(i)
        /\ "label" \in DOMAIN last.data
        /\ edges[i].data.label = Label("D", 1)

\* a dummy edge has been turned into a conduit next to another conduit, and
\* got the label "C2"
C26_BackToConduit ==
    \E i \in 1..Len(pre.edges) :
        /\ TypeChangedAt(i)
        /\ last.data.type = "conduit"
        /\ edges[i].data.label = Label("C", 2)

\* a partial naming the edge's own type has been applied
C26_SameType ==
    \E i \in 1..Len(pre.edges) :
        /\ UpdatedAt(i)
        /\ "type" \in DOMAIN last.data
        /\ ~TypeChangedAt(i)

\* C27: after deleteElement(id, type), when the element with that id and
\* type was the selected one, selectedElementId and selectedElementType are
\* both null.
C27_DeleteClearsSelection ==
    (/\ last.op = "deleteElement"
     /\ pre.selectedElementId = last.id
     /\ pre.selectedElementType = last.type) =>
        selectedElementId = null /\ selectedElementType = "null"

\* the selected edge of a loaded network has been deleted
C27_Witness ==
    /\ last.op = "deleteElement"
    /\ last.type = "edge"
    /\ pre.selectedElementId = last.id
    /\ pre.selectedElementType = "edge"
    /\ last.id \in EdgeIds(pre.edges)
    /\ last.id \notin EdgeIds(edges)

\* the selected node has been deleted
C27_SelectedNodeDeleted ==
    /\ last.op = "deleteElement"
    /\ last.type = "node"
    /\ pre.selectedElementId = last.id
    /\ pre.selectedElementType = "node"
    /\ last.id \in NodeIds(pre.nodes)

C30_EdgeUpdateIsShallowMerge ==
    \A i \in 1..Len(pre.edges) :
        (UpdatedAt(i) /\ ~TypeChangedAt(i)) =>
            /\ Len(edges) = Len(pre.edges)
            /\ \A k \in DOMAIN last.data : edges[i].data[k] = last.data[k]
            /\ \A k \in DOMAIN pre.edges[i].data \ DOMAIN last.data :
                  edges[i].data[k] = pre.edges[i].data[k]
            /\ \A j \in 1..Len(pre.edges) :
                  pre.edges[j].id # last.id => edges[j] = pre.edges[j]

----------------------------------------------------------------------------
(* Properties of the diagram generator as a function of the store *)

\* the step is one of a call of generateSystemDiagramSVG
RenderStep == layoutVars' # layoutVars

\* C23: generateSystemDiagramSVG leaves its nodes and edges arguments and
\* the whole store (nodes, edges, history, selection, id counter and every
\* other field) unchanged, however the calls are interleaved with the calls
\* on the store.
C23_RenderLeavesStore ==
    [][RenderStep =>
          /\ storeVars' = storeVars
          /\ pc # "idle" /\ pc # "done" =>
                diagramNodes' = diagramNodes /\ diagramEdges' = diagramEdges]_vars

\* the diagram of a store with nodes, edges and history has been generated
\* and another call has then been made on the store
C23_Witness ==
    /\ pc = "done"
    /\ svgContent.edges # <<>>
    /\ history.past # <<>>
    /\ diagramNodes = pre.nodes
    /\ nodes # diagramNodes

----------------------------------------------------------------------------
(* Properties of the level assignment *)

\* the ids at the ends of the edges handed to the diagram generator
EndIds == {diagramEdges[i].source : i \in 1..Len(diagramEdges)}
          \cup {diagramEdges[i].target : i \in 1..Len(diagramEdges)}

Successors(S) ==
    {diagramEdges[i].target :
        i \in {k \in 1..Len(diagramEdges) : diagramEdges[k].source \in S}}

RECURSIVE Closure(_)
\* S and everything reached from S along edges
Closure(S) ==
    IF Successors(S) \subseteq S THEN S ELSE Closure(S \cup Successors(S))

\* the ids reachable from some reservoir along edges
Reached == Closure(NodeIds(Reservoirs(diagramNodes)))

\* no id is reached from itself along one or more edges
Acyclic == \A id \in EndIds : id \notin Closure(Successors({id}))

SetMax(S) == CHOOSE x \in S : \A y \in S : y <= x

RECURSIVE LongestPath(_)
\* in an acyclic graph: the largest number of edges on a path from a
\* reservoir to the reached id v
LongestPath(v) ==
    SetMax((IF v \in NodeIds(Reservoirs(diagramNodes)) THEN {0} ELSE {})
           \cup {LongestPath(diagramEdges[i].source) + 1 :
                   i \in {k \in 1..Len(diagramEdges) :
                            /\ diagramEdges[k].target = v
                            /\ diagramEdges[k].source \in Reached}})

\* C8: for every edge (u, v) with u and v reachable from a reservoir, the
\* level of v is at least the level of u plus 1.
C8_EdgeLevelsIncrease ==
    pc = "done" =>
        \A i \in 1..Len(diagramEdges) :
            LET u == diagramEdges[i].source
                v == diagramEdges[i].target
            IN (u \in Reached /\ v \in Reached) => LevelOf(v) >= LevelOf(u) + 1

\* C9: every reservoir ends with level 0 and is placed at x = 80.
C9_ReservoirsAtLevel0 ==
    pc = "done" =>
        \A i \in 1..Len(diagramNodes) :
            diagramNodes[i].type = "reservoir"
                => LevelOf(diagramNodes[i].id) = 0 /\ PosX(diagramNodes[i].id) = 80

\* C10: in an acyclic graph the level of every node reachable from a
\* reservoir is the largest number of edges on a path from a reservoir to it.
C10_LevelIsLongestPath ==
    (pc = "done" /\ Acyclic) =>
        \A id \in Reached \cap NodeIds(diagramNodes) :
            LevelOf(id) = LongestPath(id)

\* the indices of the nodes whose level is 0, in the input node list
LevelZero == {j \in 1..Len(diagramNodes) : LevelOf(diagramNodes[j].id) = 0}

\* C28: a node that no path from a reservoir reaches gets level 0 and is
\* placed with the other level-0 nodes, reservoirs included, at x = 80; its
\* vertical slot is its rank, in the input node order, among all level-0
\* nodes; and it is drawn.
C28_UnreachedAtLevel0 ==
    pc = "done" =>
        \A i \in 1..Len(diagramNodes) :
            diagramNodes[i].id \notin Reached =>
                LET slot == Cardinality({j \in LevelZero : j < i})
                    startY == (750 - (Cardinality(LevelZero) - 1) * 140) \div 2
                    pos == [x |-> 80, y |-> startY + slot * 140]
                IN /\ LevelOf(diagramNodes[i].id) = 0
                   /\ i \in LevelZero
                   /\ PosMap[diagramNodes[i].id] = pos
                   /\ svgContent.nodes[i].id = diagramNodes[i].id
                   /\ svgContent.nodes[i].pos = pos

\* a junction that no reservoir reaches, listed after a reservoir and the
\* source of an edge, has been drawn in the second slot of level 0
C28_Witness ==
    /\ pc = "done"
    /\ Len(diagramNodes) = 2
    /\ diagramNodes[1].type = "reservoir"
    /\ diagramNodes[2].id \notin Reached
    /\ \E k \in 1..Len(diagramEdges) :
          diagramEdges[k].source = diagramNodes[2].id
    /\ svgContent.nodes[1].pos = [x |-> 80, y |-> 305]
    /\ svgContent.nodes[2].pos = [x |-> 80, y |-> 445]

\* the graph is the chain 1 -> 2 -> ... -> n of its n nodes, node 1 is a
\* reservoir and no other node is
IsChain ==
    LET n == Len(diagramNodes) IN
    /\ n >= 1
    /\ NodeIds(diagramNodes) = {ToStr(i) : i \in 1..n}
    /\ UniqueIds(diagramNodes)
    /\ \A i \in 1..n :
          (diagramNodes[i].type = "reservoir") <=> (diagramNodes[i].id = ToStr(1))
    /\ Len(diagramEdges) = n - 1
    /\ {<<diagramEdges[i].source, diagramEdges[i].target>> :
            i \in 1..Len(diagramEdges)}
          = {<<ToStr(i), ToStr(i + 1)>> : i \in 1..(n - 1)}

\* C25: for a chain reservoir -> n1 -> ... -> nk with no other edge the
\* reservoir gets level 0 and ni level i, and the x coordinates, 80 + 180
\* times the level, grow strictly along the chain.
C25_ChainLevels ==
    (pc = "done" /\ IsChain) =>
        /\ \A i \in 1..Len(diagramNodes) :
              /\ LevelOf(ToStr(i)) = i - 1
              /\ PosMap[ToStr(i)].x = 80 + 180 * (i - 1)
        /\ \A i, j \in 1..Len(diagramNodes) :
              i < j => PosMap[ToStr(i)].x < PosMap[ToStr(j)].x
        /\ \A i \in 1..Len(svgContent.nodes) :
              svgContent.nodes[i].pos = PosMap[svgContent.nodes[i].id]

\* the chain reservoir -> junction -> surge tank, listed from its end to its
\* start, has been laid out with levels 0, 1, 2
C25_Witness ==
    /\ pc = "done"
    /\ IsChain
    /\ Len(diagramNodes) = 3
    /\ diagramNodes[1] = [id |-> <<3>>, type |-> "surgeTank"]
    /\ diagramNodes[2] = [id |-> <<2>>, type |-> "junction"]
    /\ diagramEdges[1].source = <<2>>
    /\ LevelOf(<<1>>) = 0 /\ LevelOf(<<2>>) = 1 /\ LevelOf(<<3>>) = 2

----------------------------------------------------------------------------
(* Properties of the drawing *)

\* the ids of the elements of the sequence, in order
IdsOf(s) == [i \in 1..Len(s) |-> s[i].id]

\* the edges whose source and target are both ids of nodes of the input
EdgesBetweenNodes ==
    SelectSeq(diagramEdges,
              LAMBDA e : /\ e.source \in NodeIds(diagramNodes)
                         /\ e.target \in NodeIds(diagramNodes))

\* C11: the renderer draws an edge if and only if its source and its target
\* are both ids of nodes of the input list: an edge with a dangling end is
\* left out, every other edge and every node is drawn, and the call ends.
C11_DanglingEdgesOmitted ==
    pc = "done" =>
        /\ svgContent.drawn
        /\ IdsOf(svgContent.edges) = IdsOf(EdgesBetweenNodes)
        /\ IdsOf(svgContent.nodes) = IdsOf(diagramNodes)

\* a graph with an edge whose target is dangling and an edge between two
\* nodes has been drawn
C11_Witness ==
    /\ pc = "done"
    /\ \E i \in 1..Len(diagramEdges) :
          /\ diagramEdges[i].source \in NodeIds(diagramNodes)
          /\ diagramEdges[i].target \notin NodeIds(diagramNodes)
    /\ Len(svgContent.edges) = 1
    /\ svgContent.edges[1].p1 # svgContent.edges[1].p2
    /\ Len(svgContent.nodes) > 1

\* a graph with an edge whose source is dangling and an edge between two
\* nodes has been drawn
C11_DanglingSource ==
    /\ pc = "done"
    /\ \E i \in 1..Len(diagramEdges) :
          /\ diagramEdges[i].source \notin NodeIds(diagramNodes)
          /\ diagramEdges[i].target \in NodeIds(diagramNodes)
    /\ Len(svgContent.edges) = 1

----------------------------------------------------------------------------
(* Properties of the Designer's handlers *)

\* the last event was a connection that the Designer's onConnect did not
\* forward to the store
ConnectIgnored == last.op = "ignored" /\ last.handler = "onConnect"

\* C31: the Designer's onConnect never forwards a connection whose source
\* equals its target: the store's onConnect is never called with equal ends,
\* no edge of the store is a self-loop, and a rejected connection leaves the
\* edges and the history as they were
C31_NoSelfLoop ==
    /\ last.op = "onConnect" => last.source # last.target
    /\ \A i \in 1..Len(edges) : edges[i].source # edges[i].target
    /\ ConnectIgnored => edges = pre.edges /\ history = pre.history

\* a self-loop was drawn on an unlocked canvas that holds edges and has a
\* history, and was rejected
C31_Witness ==
    /\ ConnectIgnored
    /\ last.source = last.target
    /\ ~pre.isLocked
    /\ pre.edges # <<>>
    /\ pre.history.past # <<>>

\* the Designer forwards a connection between two different nodes
C31_Forwarded ==
    /\ last.op = "onConnect"
    /\ Len(edges) = Len(pre.edges) + 1
    /\ edges[Len(edges)].source # edges[Len(edges)].target

----------------------------------------------------------------------------
(* Properties of undo and redo as inverses of each other *)

\* what undo and redo move: the four fields of the snapshot and the two
\* stacks of the history
Undoable(st) == [nodes |-> st.nodes, edges |-> st.edges,
                 computationalParams |-> st.computationalParams,
                 outputRequests |-> st.outputRequests,
                 past |-> st.history.past, future |-> st.history.future]

\* the last call was an undo made with a non-empty history.past and the step
\* is a call of redo
RedoAfterUndo ==
    last.op = "undo" /\ pre.history.past # <<>> /\ last'.op = "redo"

\* the last call was a redo made with a non-empty history.future and the step
\* is a call of undo
UndoAfterRedo ==
    last.op = "redo" /\ pre.history.future # <<>> /\ last'.op = "undo"

\* C32: from a state with a non-empty history.past, undo followed by redo
\* restores nodes, edges, computationalParams, outputRequests, history.past
\* and history.future exactly; from a state with a non-empty history.future,
\* so does redo followed by undo.
C32_UndoRedoRoundTrip ==
    [][(RedoAfterUndo \/ UndoAfterRedo) => Undoable(Store)' = Undoable(pre)]_vars

\* undo, made with one snapshot on history.past and one on history.future,
\* has been followed by redo, and the two calls moved the nodes
C32_Witness ==
    /\ last.op = "redo"
    /\ last.afterUndo
    /\ Len(pre.history.future) = 2
    /\ Len(history.past) = 1
    /\ history.future # <<>>
    /\ nodes # pre.nodes

\* redo, made with a non-empty history.future, has been followed by undo,
\* and the two calls moved the edges
C32_RedoThenUndo ==
    /\ last.op = "undo"
    /\ last.afterRedo
    /\ pre.history.past # <<>>
    /\ history.future # <<>>
    /\ edges # pre.edges

----------------------------------------------------------------------------
(* Properties of the selection *)

\* C33: when selectedElementId is not null, the store holds an element with
\* that id and of the kind selectedElementType (every call of selectElement
\* made here names an element of the store, or null).
C33_SelectionExists ==
    selectedElementId # null =>
        \/ selectedElementType = "node" /\ selectedElementId \in NodeIds(nodes)
        \/ selectedElementType = "edge" /\ selectedElementId \in EdgeIds(edges)

----------------------------------------------------------------------------
(* Properties of the changes made on the canvas *)

\* the last call changed the nodes or the edges of the store
GraphChanged == nodes # pre.nodes \/ edges # pre.edges

\* C34: every store operation that changes nodes or edges, other than undo,
\* redo and loadNetwork, first pushes the prior snapshot onto history.past
\* (onNodesChange and onEdgesChange included).
C34_ChangesPushHistory ==
    (GraphChanged /\ last.op \notin {"undo", "redo", "loadNetwork"})
        => /\ history.past # <<>>
           /\ history.past[1] = SnapshotOf(pre)

----------------------------------------------------------------------------
(* Properties of the queue of the level assignment *)

\* the ids of the graph: those of the nodes and those the edges name
DistinctIds ==
    NodeIds(diagramNodes)
    \cup {diagramEdges[i].source : i \in 1..Len(diagramEdges)}
    \cup {diagramEdges[i].target : i \in 1..Len(diagramEdges)}

\* the ids put in the queue so far, in order
Enqueued == dequeued \o queue

\* C35 (bound): each id is put in the queue at most once, so that the loop
\* takes at most as many ids from the queue as the graph has distinct ids.
C35_EnqueuedOnce ==
    /\ \A i, j \in 1..Len(Enqueued) : i # j => Enqueued[i] # Enqueued[j]
    /\ Len(dequeued) <= Cardinality(DistinctIds)

\* C35 (termination): a call of the generator that has started returns.
C35_Terminates == (pc = "start") ~> (pc = "done")

----------------------------------------------------------------------------
(* Properties of the positions *)

\* C36: every positioned node lies inside the canvas the renderer declares:
\* 0 <= x <= svgWidth and 0 <= y <= svgHeight = 750.
C36_InsideCanvas ==
    pc = "done" =>
        \A i \in 1..Len(svgContent.nodes) :
            /\ 0 <= svgContent.nodes[i].pos.x
            /\ svgContent.nodes[i].pos.x <= svgContent.width
            /\ 0 <= svgContent.nodes[i].pos.y
            /\ svgContent.nodes[i].pos.y <= SvgHeight

\* the horizontal half of C36
C36_InsideWidth ==
    pc = "done" =>
        \A i \in 1..Len(svgContent.nodes) :
            /\ 0 <= svgContent.nodes[i].pos.x
            /\ svgContent.nodes[i].pos.x <= svgContent.width

\* the vertical half of C36
C36_InsideHeight ==
    pc = "done" =>
        \A i \in 1..Len(svgContent.nodes) :
            /\ 0 <= svgContent.nodes[i].pos.y
            /\ svgContent.nodes[i].pos.y <= SvgHeight

\* C37: when the ids of the nodes are pairwise distinct so are their
\* positions: two nodes of different levels differ in x, and two nodes of the
\* same level differ in y by a positive multiple of 140, the later node of
\* the list being the lower one.
C37_DistinctPositions ==
    (pc = "done" /\ UniqueIds(diagramNodes)) =>
        \A i, j \in 1..Len(svgContent.nodes) :
            i < j =>
              LET a == svgContent.nodes[i]
                  b == svgContent.nodes[j]
              IN /\ a.pos # b.pos
                 /\ LevelOf(a.id) # LevelOf(b.id) => a.pos.x # b.pos.x
                 /\ LevelOf(a.id) = LevelOf(b.id) =>
                       \E m \in 1..Len(diagramNodes) :
                           b.pos.y - a.pos.y = m * 140

\* two nodes have been put in the same column
C37_Witness ==
    /\ pc = "done"
    /\ Len(svgContent.nodes) = 2
    /\ svgContent.nodes[1].pos.x = svgContent.nodes[2].pos.x
    /\ svgContent.nodes[2].pos.y = svgContent.nodes[1].pos.y + 140

\* two nodes have been put in different columns, the first of the list in
\* the later column
C37_TwoColumns ==
    /\ pc = "done"
    /\ Len(svgContent.nodes) = 2
    /\ svgContent.nodes[1].pos.x > svgContent.nodes[2].pos.x
    /\ svgContent.nodes[1].pos.y = svgContent.nodes[2].pos.y

----------------------------------------------------------------------------
(* Properties of the lock *)

\* what the editing handlers of the Designer leave in the call record: the
\* store call they forward to, or the record of an event that was ignored
\* (in SpecDesigner deleteElement is called by handleKeyDown only)
EditEvents == {"ignored", "onNodesChange", "onEdgesChange", "onConnect",
               "deleteElement"}

\* C38: an event handled by the Designer while isLocked is true (node
\* changes, edge changes, connect, Delete or Backspace on a selected element)
\* leaves the nodes, the edges and the history of the store as they were.
C38_LockBlocksEdits ==
    (pre.isLocked /\ last.op \in EditEvents)
        => nodes = pre.nodes /\ edges = pre.edges /\ history = pre.history

\* the canvas handlers do return early while the store is locked
C38_ChangeIgnored ==
    /\ pre.isLocked
    /\ last.op = "ignored"
    /\ last.handler \in {"onNodesChange", "onEdgesChange", "onConnect"}

----------------------------------------------------------------------------
(* Properties of the output requests *)

\* the requests of a list that carry the id
RequestsWithId(requests, id) ==
    {i \in 1..Len(requests) : requests[i].id = id}

\* C39: the ids of the output requests are pairwise distinct, so that
\* removeOutputRequest(id) removes exactly one request when a request
\* carries the id.
C39_UniqueRequestIds ==
    /\ \A i, j \in 1..Len(outputRequests) :
          i # j => outputRequests[i].id # outputRequests[j].id
    /\ (/\ last.op = "removeOutputRequest"
        /\ RequestsWithId(pre.outputRequests, last.id) # {})
          => Len(outputRequests) = Len(pre.outputRequests) - 1

\* the half of C39 about removeOutputRequest
C39_RemovesOne ==
    (/\ last.op = "removeOutputRequest"
     /\ RequestsWithId(pre.outputRequests, last.id) # {})
        => Len(outputRequests) = Len(pre.outputRequests) - 1

\* two requests were added at different clock values and one was removed
C39_ClockAdvanced ==
    /\ last.op = "removeOutputRequest"
    /\ Len(pre.outputRequests) = 2
    /\ pre.outputRequests[1].id # pre.outputRequests[2].id
    /\ Len(outputRequests) = 1

====
